---- MODULE Spec2Model ----
(***************************************************************************)
(* AI nutrition backend: the credential hasher (utils/password.ts), the    *)
(* data access layer (models/user-model.ts, models/meal-model.ts) over the *)
(* relational store (prisma/schema.prisma), and the user handlers          *)
(* (controllers/user-controller.ts).                                       *)
(*                                                                         *)
(* Strings the code inspects character by character (passwords, salts,     *)
(* digests) are sequences of one-character strings; the others (emails,    *)
(* names, phones, messages) are atoms.                                     *)
(***************************************************************************)
EXTENDS Integers, Sequences, FiniteSets, TLC

(***************************************************************************)
(* Bounds and input domains                                                *)
(***************************************************************************)
\* how many uuid() values the store hands out in one run
MaxId == 2
\* longest password of the hasher's input samples
MaxPwSample == 2
\* bytes of a salt; randomBytes(8) draws 8, and neither the derivation nor the
\* split depends on how many
SaltBytes == 1

Emails == {"a@x.io", "b@x.io"}
Names == {"Ann", "Bob"}
Phones == {"111", "222"}
Reqs == {"r1", "r2"}
PlanIds == {"plan1"}

Rep(c, n) == [i \in 1..n |-> c]

(***************************************************************************)
(* Credential hasher                                                       *)
(***************************************************************************)
\* serverEnv.pepper: one secret fixed for the process
Pepper == <<"k">>

\* randomBytes(n).toString('hex'): two hex digits per byte; two samples of the
\* strings a call may draw
Salts == {Rep("0", 2 * SaltBytes), Rep("f", 2 * SaltBytes)}

\* byte value of a character, as two hex digits
HexOf(c) ==
  CASE c = "a" -> <<"6", "1">>
    [] c = "b" -> <<"6", "2">>
    [] c = "k" -> <<"6", "b">>
    [] c = "." -> <<"2", "e">>
    [] c = " " -> <<"2", "0">>
    [] OTHER   -> <<"3", "f">>

RECURSIVE HexStr(_)
HexStr(s) == IF s = <<>> THEN <<>> ELSE HexOf(Head(s)) \o HexStr(Tail(s))

\* scrypt(input, salt, 64) followed by buf.toString('hex'): a derivation taken
\* to be collision free, so distinct (input, salt) give distinct hex strings
scryptHex(input, salt) == HexStr(input) \o <<"0", "0">> \o salt

\* String.prototype.split(sep) for a one-character separator
RECURSIVE SplitFrom(_, _, _)
SplitFrom(s, sep, cur) ==
  IF s = <<>> THEN <<cur>>
  ELSE IF Head(s) = sep THEN <<cur>> \o SplitFrom(Tail(s), sep, <<>>)
  ELSE SplitFrom(Tail(s), sep, Append(cur, Head(s)))

split(s, sep) == SplitFrom(s, sep, <<>>)

\* variant: the pepper is left out of the derivation
toHashDropsPepper(password, salt) == scryptHex(password, salt) \o <<".">> \o salt

\* Password.toHash, for the salt randomBytes drew
toHash(password, salt) == scryptHex(password \o Pepper, salt) \o <<".">> \o salt

\* const [hashedPassword, salt] = storedPassword.split('.'): salt is undefined,
\* and scrypt throws, when the stored value holds no '.'
compareThrows(storedPassword) == Len(split(storedPassword, ".")) < 2

\* variant: only the first byte of the digest is compared
comparePrefixOnly(storedPassword, suppliedPassword) ==
  LET parts == split(storedPassword, ".")
      mine == scryptHex(suppliedPassword \o Pepper, parts[2])
  IN  SubSeq(parts[1], 1, 2) = SubSeq(mine, 1, 2)

\* Password.compare
compare(storedPassword, suppliedPassword) ==
  LET parts == split(storedPassword, ".")
      hashedPassword == parts[1]
      salt == parts[2]
  IN  hashedPassword = scryptHex(suppliedPassword \o Pepper, salt)

(***************************************************************************)
(* The relational store (schema.prisma) as the Prisma client shows it      *)
(***************************************************************************)
\* model User: the columns of a row
UserFields == {"id", "email", "name", "phone", "password", "createdAt"}

\* variant: phone lacks @unique
UserUniqueFieldsNoPhone == <<"id", "email">>

\* model User: @id on id, @unique on email and phone, in declaration order
UserUniqueFields == <<"id", "email", "phone">>

\* the outcome of one client call: the error code it failed with ("" when it
\* did not), the constraint fields of a P2002, the rows returned, the table after
StoreResult(code, target, rows, table) ==
  [code |-> code, target |-> target, rows |-> rows, table |-> table]

\* the unique fields on which row collides with a row of others
violated(others, row) ==
  SelectSeq(UserUniqueFields, LAMBDA f : \E u \in others : u[f] = row[f])

\* prisma.user.findUnique({ where: { [field]: value } }): the row or null
userFindUnique(us, field, value) == {u \in us : u[field] = value}

\* prisma.user.create({ data }): P2002 names the first violated constraint
prismaUserCreate(us, row) ==
  LET v == violated(us, row)
  IN  IF v # <<>> THEN StoreResult("P2002", <<v[1]>>, {}, us)
      ELSE StoreResult("", <<>>, {row}, us \cup {row})

\* prisma.user.update({ where: { id }, data }): P2025 when no row has the id;
\* the columns named in data are overwritten, the others kept
prismaUserUpdate(us, id, data) ==
  LET old == userFindUnique(us, "id", id)
  IN  IF old = {} THEN StoreResult("P2025", <<>>, {}, us)
      ELSE LET o == CHOOSE u \in old : TRUE
               n == [f \in UserFields |-> IF f \in DOMAIN data THEN data[f] ELSE o[f]]
               v == violated(us \ {o}, n)
           IN  IF v # <<>> THEN StoreResult("P2002", <<v[1]>>, {}, us)
               ELSE StoreResult("", <<>>, {n}, (us \ {o}) \cup {n})

\* prisma.user.delete({ where: { id } }): P2025 when no row has the id
prismaUserDelete(us, id) ==
  LET old == userFindUnique(us, "id", id)
  IN  IF old = {} THEN StoreResult("P2025", <<>>, {}, us)
      ELSE StoreResult("", <<>>, old, us \ old)

\* model Meal
MealFields == {"id", "name", "calories", "carbs", "protein", "fat", "createdAt", "planId"}

mealFindUnique(ms, id) == {m \in ms : m.id = id}

\* variant: Meal.planId carries no foreign key
prismaMealCreateNoForeignKey(ms, ps, row) ==
  StoreResult("", <<>>, {row}, ms \cup {row})

\* prisma.meal.create({ data }): Meal_planId_fkey rejects a planId that names no
\* MealPlan row (P2003)
prismaMealCreate(ms, ps, row) ==
  IF row.planId \notin ps THEN StoreResult("P2003", <<"planId">>, {}, ms)
  ELSE StoreResult("", <<>>, {row}, ms \cup {row})

\* prisma.meal.update({ where: { id }, data })
prismaMealUpdate(ms, id, data) ==
  LET old == mealFindUnique(ms, id)
  IN  IF old = {} THEN StoreResult("P2025", <<>>, {}, ms)
      ELSE LET o == CHOOSE m \in old : TRUE
               n == [f \in MealFields |-> IF f \in DOMAIN data THEN data[f] ELSE o[f]]
           IN  StoreResult("", <<>>, {n}, (ms \ {o}) \cup {n})

\* DELETE of a MealPlan row: Meal_planId_fkey is ON DELETE RESTRICT, so the
\* store refuses (P2003) while a Meal row refers to the plan
prismaMealPlanDelete(ps, ms, p) ==
  IF \E m \in ms : m.planId = p THEN StoreResult("P2003", <<"planId">>, {}, ps)
  ELSE StoreResult("", <<>>, {p}, ps \ {p})

\* prisma.meal.delete({ where: { id } })
prismaMealDelete(ms, id) ==
  LET old == mealFindUnique(ms, id)
  IN  IF old = {} THEN StoreResult("P2025", <<>>, {}, ms)
      ELSE StoreResult("", <<>>, old, ms \ old)

(***************************************************************************)
(* Data access layer                                                       *)
(***************************************************************************)
\* what a data access call ends with: the error thrown ("" when it returned),
\* its message, the rows returned, and the table after the call
Outcome(err, message, rows, table) ==
  [err |-> err, message |-> message, rows |-> rows, table |-> table]

\* variant: only the not-found code is translated, as in MealModel
userHandlesNotFoundOnly(res) ==
  IF res.code = "P2025" THEN Outcome("NotFound", "User not found", {}, res.table)
  ELSE Outcome(res.code, "", {}, res.table)

\* variant: only the uniqueness violation is translated
userHandlesUniqueOnly(res) ==
  IF res.code = "P2002"
  THEN LET field == IF res.target # <<>> THEN res.target[1] ELSE "Field"
       IN  Outcome("BadRequestError", field \o " is already in use", {}, res.table)
  ELSE Outcome(res.code, "", {}, res.table)

\* UserModel.handlePrismaError followed by the caller's `throw error`
userHandlePrismaError(res) ==
  IF res.code = "P2025" THEN Outcome("NotFound", "User not found", {}, res.table)
  ELSE IF res.code = "P2002"
    THEN LET field == IF res.target # <<>> THEN res.target[1] ELSE "Field"
         IN  Outcome("BadRequestError", field \o " is already in use", {}, res.table)
    ELSE Outcome(res.code, "", {}, res.table)

\* the try/catch every UserModel write is wrapped in
userGuarded(res) ==
  IF res.code = "" THEN Outcome("", "", res.rows, res.table)
  ELSE userHandlePrismaError(res)

\* UserModel.create
UserModel_create(us, userData, salt, id, now) ==
  LET hashedPassword == toHash(userData.password, salt)
      row == [id |-> id, email |-> userData.email, name |-> userData.name,
              phone |-> userData.phone, password |-> hashedPassword,
              createdAt |-> now]
  IN  userGuarded(prismaUserCreate(us, row))

\* UserModel.findById
UserModel_findById(us, id) ==
  LET user == userFindUnique(us, "id", id)
  IN  IF user = {} THEN Outcome("NotFound", "User not found", {}, us)
      ELSE Outcome("", "", user, us)

\* UserModel.findByEmail: the row, or null (no rows)
UserModel_findByEmail(us, email) == Outcome("", "", userFindUnique(us, "email", email), us)

\* UserModel.findByPhone
UserModel_findByPhone(us, phone) == Outcome("", "", userFindUnique(us, "phone", phone), us)

\* UserModel.findAll
UserModel_findAll(us) == Outcome("", "", us, us)

\* UserModel.update: `if (updateData.password)` is false for a missing password
\* and for the empty string
UserModel_update(us, id, data, salt) ==
  LET updateData ==
        IF "password" \in DOMAIN data /\ data.password # <<>>
        THEN [f \in DOMAIN data |->
                IF f = "password" THEN toHash(data.password, salt) ELSE data[f]]
        ELSE data
  IN  userGuarded(prismaUserUpdate(us, id, updateData))

\* variant: the catch block swallows the error
UserModel_deleteSwallows(us, id) ==
  LET res == prismaUserDelete(us, id)
  IN  Outcome("", "", res.rows, res.table)

\* UserModel.delete
UserModel_delete(us, id) == userGuarded(prismaUserDelete(us, id))

\* variant: an unknown email is reported as such
loginTellsApart(us, email, password) ==
  LET user == UserModel_findByEmail(us, email).rows
  IN  IF user = {} THEN Outcome("NotFound", "User not found", {}, us)
      ELSE LET u == CHOOSE x \in user : TRUE
           IN  IF compareThrows(u.password) THEN Outcome("TypeError", "", {}, us)
               ELSE IF ~compare(u.password, password)
                 THEN Outcome("BadRequestError", "Invalid credentials", {}, us)
                 ELSE Outcome("", "", user, us)

\* UserModel.login
UserModel_login(us, email, password) ==
  LET user == UserModel_findByEmail(us, email).rows
  IN  IF user = {} THEN Outcome("BadRequestError", "Invalid credentials", {}, us)
      ELSE LET u == CHOOSE x \in user : TRUE
           IN  IF compareThrows(u.password) THEN Outcome("TypeError", "", {}, us)
               ELSE IF ~compare(u.password, password)
                 THEN Outcome("BadRequestError", "Invalid credentials", {}, us)
                 ELSE Outcome("", "", user, us)

\* MealModel.handlePrismaError followed by the caller's `throw error`
mealHandlePrismaError(res) ==
  IF res.code = "P2025" THEN Outcome("NotFound", "Meal not found", {}, res.table)
  ELSE Outcome(res.code, "", {}, res.table)

mealGuarded(res) ==
  IF res.code = "" THEN Outcome("", "", res.rows, res.table)
  ELSE mealHandlePrismaError(res)

\* MealModel.create
MealModel_create(ms, ps, mealData, id, now) ==
  mealGuarded(prismaMealCreate(ms, ps,
    [f \in MealFields |-> IF f = "id" THEN id ELSE IF f = "createdAt" THEN now
                          ELSE mealData[f]]))

\* variant: the null check is missing
MealModel_findByIdReturnsNull(ms, id) == Outcome("", "", mealFindUnique(ms, id), ms)

\* MealModel.findById
MealModel_findById(ms, id) ==
  LET meal == mealFindUnique(ms, id)
  IN  IF meal = {} THEN Outcome("NotFound", "Meal not found", {}, ms)
      ELSE Outcome("", "", meal, ms)

\* MealModel.updateById
MealModel_updateById(ms, id, mealData) == mealGuarded(prismaMealUpdate(ms, id, mealData))

\* MealModel.deleteById
MealModel_deleteById(ms, id) == mealGuarded(prismaMealDelete(ms, id))

(***************************************************************************)
(* State                                                                   *)
(***************************************************************************)
VARIABLES
  users,    \* the User table: a set of rows
  meals,    \* the Meal table
  plans,    \* ids of the MealPlan rows
  nextId,   \* uuid(): the next identifier the store hands out, never reused
  clock,    \* now(): ticks with every row created
  reqs,     \* the HTTP requests in flight, one per connection
  last,     \* the request answered last, with its response
  ret,      \* the last direct call of the data access layer and its outcome
  regView,  \* history: id -> body of the 201 that registered it, while no
            \*          update or delete of that id has happened since
  gone,     \* history: ids of the users deleted (by a DELETE answered 204, or
            \*          by a direct UserModel.delete that returned)
  cred,     \* history: id of a stored user -> the password it registered
            \*          with and the one its last password update set
  pw,       \* the credential hasher exercised on its own
  caught,   \* a store error in the catch block of a data access operation
  http,     \* one request on its way through the app's middleware stack
  proc      \* the process: module loading, the store-connection handles, exit

vars == <<users, meals, plans, nextId, clock, reqs, last, ret, regView, gone,
          cred, pw, caught, http, proc>>

storeVars == <<users, meals, plans, nextId, clock>>
histVars == <<regView, gone, cred>>
\* the parts exercised on their own
unitVars == <<pw, caught, http, proc>>

Ids == 1..MaxId

\* passwords the callers supply: empty, and two that pass the 8..20 length rule
PwA == Rep("a", 8)
PwB == Rep("b", 8)
Passwords == {<<>>, PwA, PwB}

\* body('password').isLength({ min: 8, max: 20 })
MinPwLen == 8
MaxPwLen == 20
ValidPasswords == {p \in Passwords : Len(p) >= MinPwLen /\ Len(p) <= MaxPwLen}

EmptyBody == [f \in {} |-> f]
OneField(f, vals) == {[x \in {f} |-> v] : v \in vals}

NoCall == [fn |-> "", id |-> 0, key |-> "", password |-> <<>>, err |-> "", message |-> "",
           rows |-> {}]
NoPw == [stage |-> "off", p |-> <<>>, q |-> <<>>, stored |-> <<>>,
         same |-> FALSE, other |-> FALSE]
NoResp == [status |-> 0, err |-> "", message |-> "", body |-> {}]
Idle == [pc |-> "idle", id |-> 0, data |-> EmptyBody]
NoRequest == [op |-> "", id |-> 0, data |-> EmptyBody, resp |-> NoResp,
              writeCalled |-> FALSE]
NoCatch == [stage |-> "off", entity |-> "", op |-> "", code |-> "", target |-> <<>>,
            err |-> "", message |-> "", tableKept |-> TRUE]
NoHttp == [stage |-> "off", method |-> "", path |-> <<>>, parses |-> TRUE,
           body |-> EmptyBody, route |-> "", errors |-> {}, handler |-> "",
           err |-> "", status |-> 0, responses |-> 0]
NoProc == [stage |-> "off", loaded |-> {}, instance |-> << >>, gets |-> << >>,
           made |-> 0, open |-> {}, used |-> {}, exit |-> ""]

\* an empty database, no request in flight
Init ==
  /\ users = {}
  /\ meals = {}
  /\ plans = {}
  /\ nextId = 1
  /\ clock = 1
  /\ reqs = [r \in Reqs |-> Idle]
  /\ last = NoRequest
  /\ ret = NoCall
  /\ regView = EmptyBody
  /\ gone = {}
  /\ cred = EmptyBody
  /\ pw = NoPw
  /\ caught = NoCatch
  /\ http = NoHttp
  /\ proc = NoProc

(***************************************************************************)
(* SpecPw: the credential hasher on sample passwords                       *)
(***************************************************************************)
PwChars == {"a", "k", "."}
RECURSIVE StringsUpTo(_)
StringsUpTo(n) ==
  IF n = 0 THEN {<<>>}
  ELSE LET shorter == StringsUpTo(n - 1)
       IN  shorter \cup {Append(s, c) : s \in shorter, c \in PwChars}
PwSamples == StringsUpTo(MaxPwSample)

InitPw ==
  /\ users = {} /\ meals = {} /\ plans = {} /\ nextId = 1 /\ clock = 1
  /\ reqs = [r \in Reqs |-> Idle] /\ last = NoRequest /\ ret = NoCall
  /\ regView = EmptyBody /\ gone = {} /\ cred = EmptyBody
  /\ caught = NoCatch /\ http = NoHttp /\ proc = NoProc
  /\ \E p \in PwSamples, q \in PwSamples :
       pw = [NoPw EXCEPT !.stage = "input", !.p = p, !.q = q]

\* stored = await Password.toHash(p)
PwHash ==
  /\ pw.stage = "input"
  /\ \E salt \in Salts :
       pw' = [pw EXCEPT !.stage = "hashed", !.stored = toHash(pw.p, salt)]
  /\ UNCHANGED <<storeVars, reqs, last, ret, histVars, caught, http, proc>>

\* await Password.compare(stored, p) and await Password.compare(stored, q)
PwCompare ==
  /\ pw.stage = "hashed"
  /\ pw' = [pw EXCEPT !.stage = "compared",
                      !.same = compare(pw.stored, pw.p),
                      !.other = compare(pw.stored, pw.q)]
  /\ UNCHANGED <<storeVars, reqs, last, ret, histVars, caught, http, proc>>

NextPw == PwHash \/ PwCompare

SpecPw == InitPw /\ [][NextPw]_vars

(***************************************************************************)
(* SpecDal: the data access layer called directly, one call at a time      *)
(***************************************************************************)
\* CreateUserData
CreateUserInputs == [email : Emails, name : {"Ann"}, phone : Phones, password : {<<>>, PwA}]

\* UpdateUserData: every field optional
UpdateUserInputs ==
  {EmptyBody} \cup OneField("email", Emails) \cup OneField("name", {"Bob"})
    \cup OneField("phone", Phones) \cup OneField("password", {<<>>, PwB})

\* the salts Password.toHash may draw while serving a payload: none when the
\* payload's password is not hashed
NoSalt == <<>>
SaltsFor(d) ==
  IF "password" \in DOMAIN d /\ d.password # <<>> THEN Salts ELSE {NoSalt}

\* CreateMealData; the plan "ghost" is never stored
MealPlanRefs == PlanIds \cup {"ghost"}
CreateMealInputs ==
  [name : {"salad"}, calories : {350}, carbs : {20}, protein : {30}, fat : {15},
   planId : MealPlanRefs]
    \cup [name : {"water"}, calories : {0}, carbs : {0}, protein : {0}, fat : {-1},
          planId : PlanIds]

\* UpdateMealData
UpdateMealInputs == OneField("name", {"soup"}) \cup OneField("calories", {-5, 120})

\* the passwords of a user just registered under id
Registered(id, password) ==
  [i \in DOMAIN cred \cup {id} |->
     IF i = id THEN [first |-> password, set |-> FALSE, latest |-> password]
     ELSE cred[i]]

\* the passwords of the user whose row an update of id with payload body wrote:
\* they follow the row to the id the payload gave it, and a payload with a
\* password sets the latest
Updated(id, body) ==
  LET to == IF "id" \in DOMAIN body THEN body.id ELSE id
      was == cred[id]
      now == IF "password" \in DOMAIN body
             THEN [was EXCEPT !.set = TRUE, !.latest = body.password]
             ELSE was
  IN  [i \in (DOMAIN cred \ {id}) \cup {to} |-> IF i = to THEN now ELSE cred[i]]

\* the passwords of a user whose row was removed
Removed(id) == [i \in DOMAIN cred \ {id} |-> cred[i]]

Call(fn, id, key, out) ==
  [fn |-> fn, id |-> id, key |-> key, password |-> <<>>, err |-> out.err,
   message |-> out.message, rows |-> out.rows]

\* a row was inserted: the identifier and the timestamp are used up
Drawn(out) ==
  /\ nextId' = IF out.err = "" THEN nextId + 1 ELSE nextId
  /\ clock' = IF out.err = "" THEN clock + 1 ELSE clock

DalUserCreate ==
  /\ nextId <= MaxId
  /\ \E d \in CreateUserInputs, salt \in Salts :
       LET out == UserModel_create(users, d, salt, nextId, clock)
       IN  /\ users' = out.table
           /\ Drawn(out)
           /\ ret' = Call("UserModel.create", 0, d.email, out)
           /\ cred' = IF out.err = "" THEN Registered(nextId, d.password) ELSE cred
  /\ UNCHANGED <<meals, plans, reqs, last, regView, gone, unitVars>>

DalUserFindById ==
  /\ \E id \in Ids : ret' = Call("UserModel.findById", id, "", UserModel_findById(users, id))
  /\ UNCHANGED <<storeVars, reqs, last, histVars, unitVars>>

DalUserFindByEmail ==
  /\ \E e \in Emails :
       ret' = Call("UserModel.findByEmail", 0, e, UserModel_findByEmail(users, e))
  /\ UNCHANGED <<storeVars, reqs, last, histVars, unitVars>>

DalUserUpdate ==
  /\ \E id \in Ids, d \in UpdateUserInputs : \E salt \in SaltsFor(d) :
       LET out == UserModel_update(users, id, d, salt)
       IN  /\ users' = out.table
           /\ ret' = Call("UserModel.update", id, "", out)
           /\ cred' = IF out.err = "" THEN Updated(id, d) ELSE cred
  /\ UNCHANGED <<meals, plans, nextId, clock, reqs, last, regView, gone, unitVars>>

DalUserLogin ==
  /\ \E e \in Emails, p \in Passwords :
       ret' = [Call("UserModel.login", 0, e, UserModel_login(users, e, p))
                 EXCEPT !.password = p]
  /\ UNCHANGED <<storeVars, reqs, last, histVars, unitVars>>

DalUserDelete ==
  /\ \E id \in Ids :
       LET out == UserModel_delete(users, id)
       IN  /\ users' = out.table
           /\ ret' = Call("UserModel.delete", id, "", out)
           /\ gone' = IF out.err = "" THEN gone \cup {id} ELSE gone
           /\ cred' = IF out.err = "" THEN Removed(id) ELSE cred
  /\ UNCHANGED <<meals, plans, nextId, clock, reqs, last, regView, unitVars>>

\* a MealPlan row is inserted (no model class exists for it: a store operation)
PlanInsert ==
  /\ \E p \in PlanIds \ plans : plans' = plans \cup {p}
  /\ ret' = NoCall
  /\ UNCHANGED <<users, meals, nextId, clock, reqs, last, histVars, unitVars>>

\* the delete of a MealPlan row is attempted (no model class exists for it: a
\* store operation)
PlanDelete ==
  /\ \E p \in plans :
       LET res == prismaMealPlanDelete(plans, meals, p)
       IN  /\ plans' = res.table
           /\ ret' = [NoCall EXCEPT !.fn = "mealPlan.delete", !.key = p, !.err = res.code]
  /\ UNCHANGED <<users, meals, nextId, clock, reqs, last, histVars, unitVars>>

DalMealCreate ==
  /\ nextId <= MaxId
  /\ \E d \in CreateMealInputs :
       LET out == MealModel_create(meals, plans, d, nextId, clock)
       IN  /\ meals' = out.table
           /\ Drawn(out)
           /\ ret' = Call("MealModel.create", 0, d.planId, out)
  /\ UNCHANGED <<users, plans, reqs, last, histVars, unitVars>>

DalMealFindById ==
  /\ \E id \in Ids : ret' = Call("MealModel.findById", id, "", MealModel_findById(meals, id))
  /\ UNCHANGED <<storeVars, reqs, last, histVars, unitVars>>

DalMealUpdateById ==
  /\ \E id \in Ids, d \in UpdateMealInputs :
       LET out == MealModel_updateById(meals, id, d)
       IN  /\ meals' = out.table
           /\ ret' = Call("MealModel.updateById", id, "", out)
  /\ UNCHANGED <<users, plans, nextId, clock, reqs, last, histVars, unitVars>>

DalMealDeleteById ==
  /\ \E id \in Ids :
       LET out == MealModel_deleteById(meals, id)
       IN  /\ meals' = out.table
           /\ ret' = Call("MealModel.deleteById", id, "", out)
  /\ UNCHANGED <<users, plans, nextId, clock, reqs, last, histVars, unitVars>>

NextDal ==
  \/ DalUserCreate \/ DalUserFindById \/ DalUserFindByEmail
  \/ DalUserUpdate \/ DalUserDelete
  \/ PlanInsert \/ PlanDelete
  \/ DalMealCreate \/ DalMealFindById \/ DalMealUpdateById \/ DalMealDeleteById

SpecDal == Init /\ [][NextDal]_vars

(***************************************************************************)
(* SpecCred: the calls of the data access layer that write or read a       *)
(* user's password                                                         *)
(***************************************************************************)
NextCred == DalUserCreate \/ DalUserUpdate \/ DalUserDelete \/ DalUserLogin

SpecCred == Init /\ [][NextCred]_vars

(***************************************************************************)
(* Spec: the user handlers serving concurrent requests                     *)
(*                                                                         *)
(* A handler runs until its next store round trip; the round trips of      *)
(* different requests interleave freely.  A request's arrival is merged    *)
(* with its first round trip.  The bodies are the ones that passed the     *)
(* route's validators.                                                     *)
(***************************************************************************)
\* variant: the row is sent whole
keepPassword(user) == user

\* const { password, ...userResponse } = user
stripPassword(user) == [f \in DOMAIN user \ {"password"} |-> user[f]]

\* statusCode of the error classes, 500 for anything else
statusOf(err) ==
  CASE err = "BadRequestError" -> 400
    [] err = "RequestValidationError" -> 400
    [] err = "NotFound" -> 404
    [] OTHER -> 500

\* res.status(status).send(body) with the password stripped from every row
Sent(status, rows) ==
  [status |-> status, err |-> "", message |-> "", body |-> {stripPassword(u) : u \in rows}]

\* the error a handler threw, as the error responder answers it
Thrown(out) ==
  [status |-> statusOf(out.err), err |-> out.err, message |-> out.message, body |-> {}]

\* variant: no pre-check
registerCheckSkipped(us, body) == Outcome("", "", {}, us)

\* UserController.register up to its `throw`: the existence pre-check
registerCheck(us, body) ==
  LET existingUser == UserModel_findByEmail(us, body.email).rows
  IN  IF existingUser # {} THEN Outcome("BadRequestError", "Email already in use", {}, us)
      ELSE Outcome("", "", {}, us)

\* request bodies that pass registerValidation
RegisterBodies == [email : Emails, name : {"Ann"}, phone : Phones, password : {PwA}]

\* request bodies that pass updateValidation; the validators constrain email,
\* name, phone and password and let every other key of the body through, so a
\* body may name the id column (with an identifier the store has handed out)
UpdateBodies ==
  {EmptyBody} \cup OneField("email", Emails)
    \cup OneField("phone", Phones) \cup OneField("password", {PwA, PwB})
    \cup OneField("id", {i \in Ids : i < nextId})

\* the handler of r suspends at its next store round trip
InFlight(r, pc, id, data) ==
  /\ reqs' = [reqs EXCEPT ![r] = [pc |-> pc, id |-> id, data |-> data]]
  /\ UNCHANGED last

\* the handler of r ends: its response goes out and the connection is free;
\* ins tells whether the handler had reached its store write
Answered(r, op, id, data, resp, ins) ==
  /\ reqs' = [reqs EXCEPT ![r] = Idle]
  /\ last' = [op |-> op, id |-> id, data |-> data, resp |-> resp, writeCalled |-> ins]

\* the history of an id ends when a write changes or removes its row
Forget(id) == [i \in DOMAIN regView \ {id} |-> regView[i]]

\* POST /users, first round trip: UserModel.findByEmail
RegisterCheck(r) ==
  /\ reqs[r].pc = "idle"
  /\ nextId + Cardinality({q \in Reqs : reqs[q].pc = "create"}) <= MaxId
  /\ \E body \in RegisterBodies :
       LET out == registerCheck(users, body)
       IN  IF out.err # "" THEN Answered(r, "register", 0, body, Thrown(out), FALSE)
           ELSE InFlight(r, "create", 0, body)
  /\ UNCHANGED <<storeVars, ret, histVars, unitVars>>

\* POST /users, second round trip: UserModel.create, then 201
RegisterCreate(r) ==
  /\ reqs[r].pc = "create"
  /\ \E salt \in Salts :
       LET out == UserModel_create(users, reqs[r].data, salt, nextId, clock)
       IN  /\ users' = out.table
           /\ Drawn(out)
           /\ IF out.err # ""
              THEN /\ Answered(r, "register", 0, reqs[r].data, Thrown(out), TRUE)
                   /\ UNCHANGED <<regView, cred>>
              ELSE /\ Answered(r, "register", nextId, reqs[r].data, Sent(201, out.rows), TRUE)
                   /\ regView' = [i \in DOMAIN regView \cup {nextId} |->
                                    IF i = nextId
                                    THEN CHOOSE v \in Sent(201, out.rows).body : TRUE
                                    ELSE regView[i]]
                   /\ cred' = Registered(nextId, reqs[r].data.password)
  /\ UNCHANGED <<meals, plans, ret, gone, unitVars>>

\* POST /users/login: UserModel.login, then 200
Login(r) ==
  /\ reqs[r].pc = "idle"
  /\ \E email \in Emails, password \in ValidPasswords :
       LET out == UserModel_login(users, email, password)
           data == [email |-> email, password |-> password]
       IN  IF out.err # "" THEN Answered(r, "login", 0, data, Thrown(out), FALSE)
           ELSE Answered(r, "login", 0, data, Sent(200, out.rows), FALSE)
  /\ UNCHANGED <<storeVars, ret, histVars, unitVars>>

\* GET /users/:id: UserModel.findById, then 200
GetById(r) ==
  /\ reqs[r].pc = "idle"
  /\ \E id \in Ids :
       LET out == UserModel_findById(users, id)
       IN  IF out.err # "" THEN Answered(r, "getById", id, EmptyBody, Thrown(out), FALSE)
           ELSE Answered(r, "getById", id, EmptyBody, Sent(200, out.rows), FALSE)
  /\ UNCHANGED <<storeVars, ret, histVars, unitVars>>

\* GET /users: UserModel.findAll, then 200
GetAll(r) ==
  /\ reqs[r].pc = "idle"
  /\ Answered(r, "getAll", 0, EmptyBody, Sent(200, UserModel_findAll(users).rows), FALSE)
  /\ UNCHANGED <<storeVars, ret, histVars, unitVars>>

\* PUT /users/:id, first round trip: UserModel.findById (the body plays no part
\* before the write, so it is drawn there)
UpdateCheck(r) ==
  /\ reqs[r].pc = "idle"
  /\ \E id \in Ids :
       LET out == UserModel_findById(users, id)
       IN  IF out.err # "" THEN Answered(r, "update", id, EmptyBody, Thrown(out), FALSE)
           ELSE InFlight(r, "write", id, EmptyBody)
  /\ UNCHANGED <<storeVars, ret, histVars, unitVars>>

\* PUT /users/:id, second round trip: UserModel.update, then 200
UpdateWrite(r) ==
  /\ reqs[r].pc = "write"
  /\ \E body \in UpdateBodies : \E salt \in SaltsFor(body) :
       LET out == UserModel_update(users, reqs[r].id, body, salt)
       IN  /\ users' = out.table
           /\ IF out.err # ""
              THEN /\ Answered(r, "update", reqs[r].id, body, Thrown(out), TRUE)
                   /\ UNCHANGED <<regView, cred>>
              ELSE /\ Answered(r, "update", reqs[r].id, body, Sent(200, out.rows), TRUE)
                   /\ regView' = Forget(reqs[r].id)
                   /\ cred' = Updated(reqs[r].id, body)
  /\ UNCHANGED <<meals, plans, nextId, clock, ret, gone, unitVars>>

\* DELETE /users/:id, first round trip: UserModel.findById
DeleteCheck(r) ==
  /\ reqs[r].pc = "idle"
  /\ \E id \in Ids :
       LET out == UserModel_findById(users, id)
       IN  IF out.err # "" THEN Answered(r, "delete", id, EmptyBody, Thrown(out), FALSE)
           ELSE InFlight(r, "remove", id, EmptyBody)
  /\ UNCHANGED <<storeVars, ret, histVars, unitVars>>

\* DELETE /users/:id, second round trip: UserModel.delete, then 204
DeleteRemove(r) ==
  /\ reqs[r].pc = "remove"
  /\ LET out == UserModel_delete(users, reqs[r].id)
     IN  /\ users' = out.table
         /\ IF out.err # ""
            THEN /\ Answered(r, "delete", reqs[r].id, EmptyBody, Thrown(out), TRUE)
                 /\ UNCHANGED histVars
            ELSE /\ Answered(r, "delete", reqs[r].id, EmptyBody, Sent(204, {}), TRUE)
                 /\ regView' = Forget(reqs[r].id)
                 /\ gone' = gone \cup {reqs[r].id}
                 /\ cred' = Removed(reqs[r].id)
  /\ UNCHANGED <<meals, plans, nextId, clock, ret, unitVars>>

Next ==
  \E r \in Reqs :
    \/ RegisterCheck(r) \/ RegisterCreate(r)
    \/ Login(r) \/ GetById(r) \/ GetAll(r)
    \/ UpdateCheck(r) \/ UpdateWrite(r)
    \/ DeleteCheck(r) \/ DeleteRemove(r)

Spec == Init /\ [][Next]_vars

(***************************************************************************)
(* Properties                                                              *)
(***************************************************************************)
WithEmail(us, e) == {u \in us : u.email = e}

\* C1: in every reachable store state no two stored users share an email and
\* no two share a phone, whatever register, update and delete requests were
\* interleaved
EmailPhoneUnique ==
  \A u \in users, v \in users : (u.email = v.email \/ u.phone = v.phone) => u = v

\* two users are stored and an update has just been refused for taking the
\* other user's phone
EmailPhoneUniqueWitness ==
  /\ Cardinality(users) = 2
  /\ last.op = "update"
  /\ last.resp.message = "phone is already in use"

EmailInUse == [status |-> 400, err |-> "BadRequestError",
               message |-> "email is already in use", body |-> {}]

DuplicateEmail == [status |-> 400, err |-> "BadRequestError",
                   message |-> "Email already in use", body |-> {}]

\* C3: a registration whose pre-check finds its email stored never reaches the
\* insert: it is answered 400 BadRequestError 'Email already in use' by the
\* pre-check and the store is left as it was
DuplicateRegisterRejected ==
  [][/\ \A r \in Reqs :
          (reqs[r].pc = "idle" /\ reqs'[r].pc = "create") =>
            WithEmail(users, reqs'[r].data.email) = {}
     /\ (last' # last /\ last'.op = "register" /\ ~last'.writeCalled) =>
          /\ WithEmail(users, last'.data.email) # {}
          /\ last'.resp = DuplicateEmail
          /\ users' = users]_vars

\* the first registration was answered 201 and its user is stored untouched;
\* the second, with the same email, has just been refused by the pre-check
DuplicateRegisterWitness ==
  /\ last.op = "register"
  /\ ~last.writeCalled
  /\ last.resp = DuplicateEmail
  /\ \E id \in DOMAIN regView : regView[id].email = last.data.email

\* C5: no response body of register, login, getById, getAll or update holds a
\* password field (for getAll: no element of the array)
NoPasswordInResponses ==
  \A b \in last.resp.body : "password" \notin DOMAIN b

\* getAll has just returned two users
NoPasswordWitness ==
  /\ last.op = "getAll"
  /\ Cardinality(last.resp.body) = 2
  /\ \A b \in last.resp.body : {"id", "email", "name", "phone", "createdAt"} \subseteq DOMAIN b

InvalidCredentials == [status |-> 400, err |-> "BadRequestError",
                       message |-> "Invalid credentials", body |-> {}]

GetFollowsRegisterAndDelete ==
  [][(last' # last /\ last'.op = "getById") =>
       /\ last'.id \in DOMAIN regView =>
            last'.resp.status = 200 /\ last'.resp.body = {regView[last'.id]}
       /\ last'.id \in gone => last'.resp.status = 404]_vars

\* a value Password.toHash can return for a password a caller may supply
IsDigest(s) == \E p \in Passwords, salt \in Salts : s = toHash(p, salt)

\* C4: after any sequence of UserModel.create and UserModel.update calls the
\* password stored for every user is a digest produced by Password.toHash,
\* never the value that was supplied
PasswordsStoredHashed ==
  \A u \in users : IsDigest(u.password) /\ u.password \notin Passwords

\* C6: Password.compare(Password.toHash(p), p) is true for every salt toHash
\* may draw, and Password.compare(Password.toHash(p), q) is false whenever q
\* differs from p
CompareMatchesHash ==
  pw.stage = "compared" => pw.same /\ (pw.q # pw.p => ~pw.other)

\* both comparisons were made for two different passwords, one of which
\* extends the other by the pepper's character
CompareMatchesHashWitness ==
  /\ pw.stage = "compared"
  /\ pw.p = <<"a">>
  /\ pw.q = <<"a", "k">>
  /\ pw.same /\ ~pw.other

\* C8: findById of UserModel and of MealModel fails with NotFound, returning
\* nothing, exactly when no stored row has the id, and returns the row
\* otherwise; findByEmail for an email no stored user has returns null without
\* failing
FindByIdThrowsFindByEmailNull ==
  /\ ret.fn = "UserModel.findById" =>
       IF \E u \in users : u.id = ret.id
       THEN ret.err = "" /\ ret.rows = {u \in users : u.id = ret.id}
       ELSE ret.err = "NotFound" /\ ret.message = "User not found" /\ ret.rows = {}
  /\ ret.fn = "MealModel.findById" =>
       IF \E m \in meals : m.id = ret.id
       THEN ret.err = "" /\ ret.rows = {m \in meals : m.id = ret.id}
       ELSE ret.err = "NotFound" /\ ret.message = "Meal not found" /\ ret.rows = {}
  /\ ret.fn = "UserModel.findByEmail" =>
       /\ ret.err = ""
       /\ ret.rows = {u \in users : u.email = ret.key}

\* findById of a deleted user's id has just failed with NotFound
FindByIdWitness ==
  /\ ret.fn = "UserModel.findById"
  /\ ret.id \in gone
  /\ ret.err = "NotFound"

\* C10: UserModel.delete and MealModel.deleteById of an id with no stored row
\* fail with NotFound and change nothing; of a stored id they remove that row
\* and change no other row
DeleteRemovesExactlyTheRow ==
  [][/\ (ret'.fn = "UserModel.delete" /\ <<ret, users>>' # <<ret, users>>) =>
          /\ IF \E u \in users : u.id = ret'.id
             THEN ret'.err = "" /\ users' = {u \in users : u.id # ret'.id}
             ELSE ret'.err = "NotFound" /\ users' = users
          /\ UNCHANGED <<meals, plans>>
     /\ (ret'.fn = "MealModel.deleteById" /\ <<ret, meals>>' # <<ret, meals>>) =>
          /\ IF \E m \in meals : m.id = ret'.id
             THEN ret'.err = "" /\ meals' = {m \in meals : m.id # ret'.id}
             ELSE ret'.err = "NotFound" /\ meals' = meals
          /\ UNCHANGED <<users, plans>>]_vars

\* one of two stored users has just been deleted and the other is still stored
DeleteWitness ==
  /\ ret.fn = "UserModel.delete"
  /\ ret.err = ""
  /\ ret.id \in gone
  /\ Cardinality(users) = 1
  /\ \A u \in users : u.id # ret.id

NotFoundUser == [status |-> 404, err |-> "NotFound",
                 message |-> "User not found", body |-> {}]

\* C11: a PUT /users/:id whose target user was deleted (DELETE answered 204)
\* between its existence check and its write is answered 404 NotFound, and its
\* write changes no row of the store
UpdateAfterDeleteFails ==
  [][\A r \in Reqs :
       (reqs[r].pc = "write" /\ reqs'[r].pc = "idle" /\ reqs[r].id \in gone) =>
         /\ last'.resp = NotFoundUser
         /\ users' = users]_vars

\* the same write when no stored row carries the target id
UpdateOfAbsentRowFails ==
  [][\A r \in Reqs :
       (reqs[r].pc = "write" /\ reqs'[r].pc = "idle"
          /\ \A u \in users : u.id # reqs[r].id) =>
         /\ last'.resp = NotFoundUser
         /\ users' = users]_vars

(***************************************************************************)
(* SpecErr: the catch blocks of the data access layer on the errors the    *)
(* store client can reject a write with                                    *)
(***************************************************************************)
\* PrismaClientKnownRequestError.code: record not found, unique constraint,
\* foreign key constraint, database unreachable
StoreCodes == {"P2025", "P2002", "P2003", "P1001"}

\* error.meta.target of the error: absent, or the fields of the constraint
StoreTargets == {<<>>, <<"id">>, <<"email">>, <<"phone">>}

\* the operations whose client call sits in a try/catch
GuardedOps == {"create", "update", "delete"}

\* the client call of some write has just been rejected
InitErr ==
  /\ users = {} /\ meals = {} /\ plans = {} /\ nextId = 1 /\ clock = 1
  /\ reqs = [r \in Reqs |-> Idle] /\ last = NoRequest /\ ret = NoCall
  /\ regView = EmptyBody /\ gone = {} /\ cred = EmptyBody
  /\ pw = NoPw /\ http = NoHttp /\ proc = NoProc
  /\ \E code \in StoreCodes, target \in StoreTargets :
       caught = [NoCatch EXCEPT !.stage = "raised", !.code = code, !.target = target]

Rethrown(entity, op, res, out) ==
  [caught EXCEPT !.stage = "thrown", !.entity = entity, !.op = op,
                 !.err = out.err, !.message = out.message,
                 !.tableKept = (out.table = res.table)]

\* catch (error) { UserModel.handlePrismaError(error); throw error; }
UserCatch ==
  /\ caught.stage = "raised"
  /\ \E op \in GuardedOps :
       LET res == StoreResult(caught.code, caught.target, {}, users)
       IN  caught' = Rethrown("User", op, res, userGuarded(res))
  /\ UNCHANGED <<storeVars, reqs, last, ret, histVars, pw, http, proc>>

\* catch (error) { MealModel.handlePrismaError(error); throw error; }
MealCatch ==
  /\ caught.stage = "raised"
  /\ \E op \in GuardedOps :
       LET res == StoreResult(caught.code, caught.target, {}, meals)
       IN  caught' = Rethrown("Meal", op, res, mealGuarded(res))
  /\ UNCHANGED <<storeVars, reqs, last, ret, histVars, pw, http, proc>>

NextErr == UserCatch \/ MealCatch

SpecErr == InitErr /\ [][NextErr]_vars

\* what the catch block of an operation must end with for the error caught
Translated(c) ==
  /\ c.code = "P2025" => c.err = "NotFound"
  /\ c.code = "P2002" =>
       /\ c.err = "BadRequestError"
       /\ c.target # <<>> => c.message = c.target[1] \o " is already in use"
  /\ c.code \notin {"P2025", "P2002"} => c.err = c.code /\ c.message = ""
  /\ c.tableKept

\* C12: in the create, update and delete operations of UserModel and of
\* MealModel a store error with the not-found code ends as NotFound, one with
\* the uniqueness-violation code as BadRequestError '<field> is already in use'
\* naming the field, any other is rethrown as it is, and the table is as before
StoreErrorsTranslated == caught.stage = "thrown" => Translated(caught)

\* the same for the operations of UserModel alone
UserStoreErrorsTranslated ==
  (caught.stage = "thrown" /\ caught.entity = "User") => Translated(caught)

\* the same for MealModel and every code but the uniqueness violation
MealStoreErrorsTranslated ==
  (caught.stage = "thrown" /\ caught.entity = "Meal" /\ caught.code # "P2002")
    => Translated(caught)

(***************************************************************************)
(* SpecHttp: one request on its way through the middleware stack of app.ts *)
(* (express.json, /healthz, the routers under /api/v1, the not-found       *)
(* fallthrough, the error responder).  The handlers are taken by their     *)
(* outcomes: the response they send or the error they throw.               *)
(***************************************************************************)
Methods == {"GET", "POST", "PUT", "DELETE", "PATCH"}

\* a path segment that is a UUID, and one that is not
Uuid == "123e4567-e89b-12d3-a456-426614174000"
NotUuid == "invalid-uuid"

\* request paths, split at '/'
UsersPath == <<"api", "v1", "users">>
Paths ==
  { <<>>, <<"healthz">>, <<"api", "v1">>, UsersPath, <<"api", "v1", "meals">>,
    <<"api", "v2", "users">>,
    UsersPath \o <<"register">>, UsersPath \o <<"login">>,
    UsersPath \o <<Uuid>>, UsersPath \o <<NotUuid>>, UsersPath \o <<Uuid, "meals">> }

\* values of the body fields, as character sequences
EmailSamples == { <<"a", "@", "x", ".", "y">>, <<"a", "@", "x">>, <<"a">> }
NameSamples == { <<"A">>, <<" ">> }
PhoneSamples == { <<"1">>, <<>> }
PasswordSamples ==
  { PwA, Rep("a", MinPwLen - 1), Rep("a", MaxPwLen + 1),
    <<" ">> \o Rep("a", MinPwLen - 1) \o <<" ">>, Rep("a", MaxPwLen) \o <<" ">> }

BodyFields == {"email", "name", "phone", "password"}
FieldSamples(f) ==
  CASE f = "email" -> EmailSamples
    [] f = "name" -> NameSamples
    [] f = "phone" -> PhoneSamples
    [] f = "password" -> PasswordSamples

\* JSON bodies: any subset of the fields, each with one of its samples
HttpBodies ==
  UNION { { b \in [S -> EmailSamples \cup NameSamples \cup PhoneSamples \cup PasswordSamples] :
              \A f \in S : b[f] \in FieldSamples(f) } : S \in SUBSET BodyFields }

\* String.prototype.trim on a character sequence
RECURSIVE trimStart(_)
trimStart(s) == IF s # <<>> /\ Head(s) = " " THEN trimStart(Tail(s)) ELSE s
RECURSIVE trimEnd(_)
trimEnd(s) ==
  IF s # <<>> /\ s[Len(s)] = " " THEN trimEnd(SubSeq(s, 1, Len(s) - 1)) ELSE s
trim(s) == trimEnd(trimStart(s))

\* validator.js isEmail with its defaults: one '@', a local part, and a domain
\* with a top-level label after a '.'
isEmail(s) ==
  LET ats == {i \in 1..Len(s) : s[i] = "@"}
  IN  /\ Cardinality(ats) = 1
      /\ LET at == CHOOSE i \in ats : TRUE
             dots == {i \in (at + 1)..Len(s) : s[i] = "."}
         IN  /\ at > 1
             /\ \E d \in dots : d > at + 1 /\ d < Len(s)
             /\ \A i \in 1..Len(s) : s[i] # " "

\* validator.js isUUID
isUUID(seg) == seg = Uuid

\* the value a required field's chain sees: '' for a missing field
fieldOf(body, f) == IF f \in DOMAIN body THEN body[f] ELSE <<>>

\* .isLength({ min: 8, max: 20 }) after .trim()
passwordInRange(v) == Len(trim(v)) >= MinPwLen /\ Len(trim(v)) <= MaxPwLen

\* UserController.registerValidation: the messages of the failed chains
registerValidation(body) ==
  {m \in {"Email must be valid", "Name is required", "Phone number is required",
          "Password must be between 8 and 20 characters"} :
     \/ m = "Email must be valid" /\ ~isEmail(fieldOf(body, "email"))
     \/ m = "Name is required" /\ trim(fieldOf(body, "name")) = <<>>
     \/ m = "Phone number is required" /\ trim(fieldOf(body, "phone")) = <<>>
     \/ m = "Password must be between 8 and 20 characters"
          /\ ~passwordInRange(fieldOf(body, "password"))}

\* UserController.loginValidation
loginValidation(body) ==
  {m \in {"Email must be valid", "Password is required"} :
     \/ m = "Email must be valid" /\ ~isEmail(fieldOf(body, "email"))
     \/ m = "Password is required" /\ trim(fieldOf(body, "password")) = <<>>}

\* UserController.idParamValidation
idParamValidation(id) ==
  IF isUUID(id) THEN {} ELSE {"Valid user ID is required"}

\* UserController.updateValidation: .optional() skips a field the body lacks
updateValidation(id, body) ==
  idParamValidation(id) \cup
  {m \in {"Email must be valid", "Name cannot be empty", "Phone cannot be empty",
          "Password must be between 8 and 20 characters"} :
     \/ m = "Email must be valid" /\ "email" \in DOMAIN body /\ ~isEmail(body.email)
     \/ m = "Name cannot be empty" /\ "name" \in DOMAIN body /\ trim(body.name) = <<>>
     \/ m = "Phone cannot be empty" /\ "phone" \in DOMAIN body /\ trim(body.phone) = <<>>
     \/ m = "Password must be between 8 and 20 characters"
          /\ "password" \in DOMAIN body /\ ~passwordInRange(body.password)}

\* the sanitizers of a route's chains, applied to the body in place
Trimmed(body, fields) ==
  [f \in DOMAIN body |-> IF f \in fields THEN trim(body[f]) ELSE body[f]]

IsPrefix(p, s) == Len(p) <= Len(s) /\ SubSeq(s, 1, Len(p)) = p
Rest(p, s) == SubSeq(s, Len(p) + 1, Len(s))

\* variant: the router also has POST /register and POST /login
userRouterWithLogin(method, rest) ==
  CASE method = "POST" /\ rest = <<>> -> "register"
    [] method = "POST" /\ rest = <<"register">> -> "register"
    [] method = "POST" /\ rest = <<"login">> -> "login"
    [] method = "GET" /\ rest = <<>> -> "getAll"
    [] method = "GET" /\ Len(rest) = 1 -> "getById"
    [] method = "PUT" /\ Len(rest) = 1 -> "update"
    [] method = "DELETE" /\ Len(rest) = 1 -> "delete"
    [] OTHER -> ""

\* userRouter: the route of the router that matches, "" when none does;
\* '/' matches the mount path itself and '/:id' exactly one segment
userRouter(method, rest) ==
  CASE method = "POST" /\ rest = <<>> -> "register"
    [] method = "GET" /\ rest = <<>> -> "getAll"
    [] method = "GET" /\ Len(rest) = 1 -> "getById"
    [] method = "PUT" /\ Len(rest) = 1 -> "update"
    [] method = "DELETE" /\ Len(rest) = 1 -> "delete"
    [] OTHER -> ""

\* indexRouter: router.use('/users', userRouter)
indexRouter(method, rest) ==
  IF IsPrefix(<<"users">>, rest) THEN userRouter(method, Rest(<<"users">>, rest)) ELSE ""

\* app: app.get('/healthz', ...) then app.use('/api/v1', indexRouter)
appRoute(method, path) ==
  IF method = "GET" /\ path = <<"healthz">> THEN "healthz"
  ELSE IF IsPrefix(<<"api", "v1">>, path)
    THEN indexRouter(method, Rest(<<"api", "v1">>, path))
    ELSE ""

\* req.params.id of a '/:id' route
paramId(path) == path[Len(path)]

\* the validator chains a route declares, run on the request
routeValidation(route, path, body) ==
  CASE route = "register" -> registerValidation(body)
    [] route = "login" -> loginValidation(body)
    [] route = "getById" -> idParamValidation(paramId(path))
    [] route = "delete" -> idParamValidation(paramId(path))
    [] route = "update" -> updateValidation(paramId(path), body)
    [] OTHER -> {}

\* the body fields a route's chains trim
routeTrims(route) ==
  CASE route = "register" -> {"name", "phone", "password"}
    [] route = "login" -> {"password"}
    [] route = "update" -> {"name", "phone", "password"}
    [] OTHER -> {}

\* variant: validateRequest calls next() whatever the chains found
validateRequestLax(errors) == ""

\* validateRequest: throws when validationResult(req) is not empty
validateRequest(errors) == IF errors = {} THEN "" ELSE "RequestValidationError"

\* how a handler can end once invoked: the status it sends, or the error it
\* (or the data access layer under it) throws; P1001 stands for a store error
\* that no handlePrismaError translates
HandlerOutcomes(route) ==
  CASE route = "register" ->
         {[status |-> 201, err |-> ""], [status |-> 0, err |-> "BadRequestError"],
          [status |-> 0, err |-> "P1001"]}
    [] route = "login" ->
         {[status |-> 200, err |-> ""], [status |-> 0, err |-> "BadRequestError"],
          [status |-> 0, err |-> "P1001"]}
    [] route = "getAll" -> {[status |-> 200, err |-> ""], [status |-> 0, err |-> "P1001"]}
    [] route = "getById" ->
         {[status |-> 200, err |-> ""], [status |-> 0, err |-> "NotFound"],
          [status |-> 0, err |-> "P1001"]}
    [] route = "update" ->
         {[status |-> 200, err |-> ""], [status |-> 0, err |-> "NotFound"],
          [status |-> 0, err |-> "BadRequestError"], [status |-> 0, err |-> "P1001"]}
    [] route = "delete" ->
         {[status |-> 204, err |-> ""], [status |-> 0, err |-> "NotFound"],
          [status |-> 0, err |-> "P1001"]}

\* a request has arrived; a body that is not valid JSON never becomes req.body
InitHttp ==
  /\ users = {} /\ meals = {} /\ plans = {} /\ nextId = 1 /\ clock = 1
  /\ reqs = [r \in Reqs |-> Idle] /\ last = NoRequest /\ ret = NoCall
  /\ regView = EmptyBody /\ gone = {} /\ cred = EmptyBody
  /\ pw = NoPw /\ caught = NoCatch /\ proc = NoProc
  /\ \E method \in Methods, path \in Paths, parses \in BOOLEAN, body \in HttpBodies :
       /\ ~parses => body = EmptyBody
       /\ http = [stage |-> "arrived", method |-> method, path |-> path,
                  parses |-> parses, body |-> body, route |-> "", errors |-> {},
                  handler |-> "", err |-> "", status |-> 0, responses |-> 0]

otherThanHttp == <<storeVars, reqs, last, ret, histVars, pw, caught, proc>>

\* app.use(express.json()): a body that fails to parse goes to next(err)
JsonParse ==
  /\ http.stage = "arrived"
  /\ http' = IF http.parses THEN [http EXCEPT !.stage = "parsed"]
             ELSE [http EXCEPT !.stage = "failed", !.err = "SyntaxError"]
  /\ UNCHANGED otherThanHttp

\* the routes in registration order; /healthz answers at once, and a request
\* no route matches reaches app.use((req, res, next) => next(new NotFound()))
Route ==
  /\ http.stage = "parsed"
  /\ LET route == appRoute(http.method, http.path)
     IN  http' = IF route = "healthz"
                   THEN [http EXCEPT !.stage = "done", !.route = route, !.handler = route,
                                     !.status = 200, !.responses = 1]
                 ELSE IF route = ""
                   THEN [http EXCEPT !.stage = "failed", !.err = "NotFound"]
                   ELSE [http EXCEPT !.stage = "matched", !.route = route]
  /\ UNCHANGED otherThanHttp

\* the route's validator chains, all of them, then validateRequest
Validate ==
  /\ http.stage = "matched"
  /\ LET errors == routeValidation(http.route, http.path, http.body)
         thrown == validateRequest(errors)
     IN  http' = IF thrown # ""
                   THEN [http EXCEPT !.stage = "failed", !.errors = errors, !.err = thrown,
                                     !.body = Trimmed(http.body, routeTrims(http.route))]
                   ELSE [http EXCEPT !.stage = "valid",
                                     !.body = Trimmed(http.body, routeTrims(http.route))]
  /\ UNCHANGED otherThanHttp

\* the route's handler runs: it sends its response, or throws
Handle ==
  /\ http.stage = "valid"
  /\ \E out \in HandlerOutcomes(http.route) :
       http' = IF out.err = ""
                 THEN [http EXCEPT !.stage = "done", !.handler = http.route,
                                   !.status = out.status, !.responses = 1]
                 ELSE [http EXCEPT !.stage = "failed", !.handler = http.route,
                                   !.err = out.err]
  /\ UNCHANGED otherThanHttp

\* variant: an error a handler threw after it was invoked is passed to nobody
ErrorHandlerSyncOnly ==
  /\ http.stage = "failed"
  /\ http.handler = ""
  /\ http' = [http EXCEPT !.stage = "done", !.status = statusOf(http.err),
                          !.responses = http.responses + 1]
  /\ UNCHANGED otherThanHttp

\* app.use(errorHandler): the one responder of every error passed to next
ErrorHandler ==
  /\ http.stage = "failed"
  /\ http' = [http EXCEPT !.stage = "done", !.status = statusOf(http.err),
                          !.responses = http.responses + 1]
  /\ UNCHANGED otherThanHttp

NextHttp == JsonParse \/ Route \/ Validate \/ Handle \/ ErrorHandler

SpecHttp == InitHttp /\ [][NextHttp]_vars

\* the same under the event loop's progress: a request that can take its next
\* step takes it
SpecHttpLive == SpecHttp /\ WF_vars(NextHttp)

\* the handler the routing table is stated to reach for a method and path
StatedHandler(method, path) ==
  IF ~IsPrefix(UsersPath, path) THEN ""
  ELSE LET rest == Rest(UsersPath, path)
       IN  CASE method = "POST" /\ rest = <<"register">> -> "register"
             [] method = "POST" /\ rest = <<"login">> -> "login"
             [] method = "GET" /\ rest = <<>> -> "getAll"
             [] method = "GET" /\ Len(rest) = 1 -> "getById"
             [] method = "PUT" /\ Len(rest) = 1 -> "update"
             [] method = "DELETE" /\ Len(rest) = 1 -> "delete"
             [] OTHER -> ""

\* C13: a request on POST /api/v1/users/register, POST /api/v1/users/login,
\* GET /api/v1/users, or GET, PUT, DELETE /api/v1/users/:id whose input passes
\* the validation of register, login, getAll, getById, update, delete
\* respectively has exactly that handler invoked
RoutesDispatch ==
  LET stated == StatedHandler(http.method, http.path)
  IN  (/\ http.stage = "done"
       /\ http.parses
       /\ stated # ""
       /\ routeValidation(stated, http.path, http.body) = {})
        => http.handler = stated

\* the same for the routes user-route.ts registers: POST /api/v1/users for
\* register, and the four others as stated
RegisteredRoutesDispatch ==
  LET route == appRoute(http.method, http.path)
  IN  (/\ http.stage = "done"
       /\ http.parses
       /\ route # ""
       /\ routeValidation(route, http.path, http.body) = {})
        => http.handler = route

\* the user route a request is on, among those that declare validators:
\* register, get, update and delete by id where user-route.ts puts them, and
\* login at POST /api/v1/users/login
ValidatedRoute(method, path) ==
  IF method = "POST" /\ path = UsersPath \o <<"login">> THEN "login"
  ELSE IF appRoute(method, path) \in {"register", "getById", "update", "delete"}
    THEN appRoute(method, path)
    ELSE ""

\* C14: a request on a user route that declares validators (register, login,
\* get, update, delete by id) that violates one of the route's rules is
\* answered 400 with a list of errors, and its handler is not invoked
ValidatorsGuardHandlers ==
  LET route == ValidatedRoute(http.method, http.path)
  IN  (/\ http.stage = "done"
       /\ http.parses
       /\ route # ""
       /\ routeValidation(route, http.path, http.body) # {})
        => /\ http.status = 400
           /\ http.errors = routeValidation(route, http.path, http.body)
           /\ http.handler = ""
           /\ http.responses = 1

\* the same for the routes user-route.ts registers
RegisteredValidatorsGuardHandlers ==
  LET route == appRoute(http.method, http.path)
  IN  (/\ http.stage = "done"
       /\ http.parses
       /\ route # ""
       /\ routeValidation(route, http.path, http.body) # {})
        => /\ http.status = 400
           /\ http.errors = routeValidation(route, http.path, http.body)
           /\ http.handler = ""
           /\ http.responses = 1

\* no handler is ever invoked on a request that violates its route's rules
HandlersRunOnValidInput ==
  http.handler \notin {"", "healthz"} =>
    routeValidation(http.handler, http.path, http.body) = {}

\* the errors a request can end in: thrown by a handler or by the data access
\* layer under it, by validateRequest, by the not-found fallthrough, by
\* express.json
ErrorKinds ==
  {"BadRequestError", "NotFound", "RequestValidationError", "P1001", "SyntaxError"}

\* the status stated for an error kind
StatedStatus(e) ==
  IF e \in {"BadRequestError", "RequestValidationError"} THEN 400
  ELSE IF e = "NotFound" THEN 404
  ELSE 500

RegisteredRoute(method, path) ==
  \/ method = "GET" /\ path = <<"healthz">>
  \/ method \in {"GET", "POST"} /\ path = UsersPath
  \/ /\ method \in {"GET", "PUT", "DELETE"}
     /\ Len(path) = Len(UsersPath) + 1
     /\ IsPrefix(UsersPath, path)

NotFoundAnswer ==
  /\ http.status = 404
  /\ http.err = "NotFound"
  /\ http.route = ""
  /\ http.handler = ""
  /\ http.responses = 1

MaxGets == 3

\* the modules that declare a PrismaClientSingleton
SingletonModules == {"user-model", "prisma-client"}

\* the module whose `prisma` an entity's operations use
prismaOf(entity) == IF entity = "User" THEN "user-model" ELSE "prisma-client"

\* the modules that register process.on('beforeExit', ... prisma.$disconnect())
DisconnectsOnExit == {"user-model"}

\* how the process ends: the event loop drains (beforeExit is emitted), or it
\* is ended by a signal, process.exit() or an uncaught error (it is not)
ExitKinds == {"drained", "killed"}

InitProc ==
  /\ users = {} /\ meals = {} /\ plans = {} /\ nextId = 1 /\ clock = 1
  /\ reqs = [r \in Reqs |-> Idle] /\ last = NoRequest /\ ret = NoCall
  /\ regView = EmptyBody /\ gone = {} /\ cred = EmptyBody
  /\ pw = NoPw /\ caught = NoCatch /\ http = NoHttp
  /\ proc = [stage |-> "running", loaded |-> {},
             instance |-> [m \in SingletonModules |-> 0],
             gets |-> [m \in SingletonModules |-> 0],
             made |-> 0, open |-> {}, used |-> {}, exit |-> ""]

otherThanProc == <<storeVars, reqs, last, ret, histVars, pw, caught, http>>

\* PrismaClientSingleton.getInstance of module m: new PrismaClient() when the
\* class's static instance is unset
getInstance(p, m) ==
  IF p.instance[m] = 0
  THEN [p EXCEPT !.made = p.made + 1,
                 !.instance[m] = p.made + 1,
                 !.open = p.open \cup {p.made + 1},
                 !.gets[m] = p.gets[m] + 1]
  ELSE [p EXCEPT !.gets[m] = p.gets[m] + 1]

\* a module is evaluated, once: const prisma = PrismaClientSingleton.getInstance()
LoadModule ==
  /\ proc.stage = "running"
  /\ \E m \in SingletonModules \ proc.loaded :
       proc' = [getInstance(proc, m) EXCEPT !.loaded = proc.loaded \cup {m}]
  /\ UNCHANGED otherThanProc

\* a further PrismaClientSingleton.getInstance() in a loaded module
GetInstance ==
  /\ proc.stage = "running"
  /\ \E m \in proc.loaded :
       /\ proc.gets[m] < MaxGets
       /\ proc' = getInstance(proc, m)
  /\ UNCHANGED otherThanProc

\* an operation of UserModel or MealModel runs on its module's `prisma`
ModelOperation ==
  /\ proc.stage = "running"
  /\ \E entity \in {"User", "Meal"} :
       /\ prismaOf(entity) \in proc.loaded
       /\ proc' = [proc EXCEPT !.used = proc.used \cup
                     {[entity |-> entity, handle |-> proc.instance[prismaOf(entity)]]}]
  /\ UNCHANGED otherThanProc

\* the process ends; the beforeExit listeners run only when the loop drained
Exit ==
  /\ proc.stage = "running"
  /\ \E kind \in ExitKinds :
       proc' = [proc EXCEPT
                  !.stage = "exited", !.exit = kind,
                  !.open = IF kind = "drained"
                           THEN proc.open \ {proc.instance[m] :
                                               m \in DisconnectsOnExit \cap proc.loaded}
                           ELSE proc.open]
  /\ UNCHANGED otherThanProc

NextProc == LoadModule \/ GetInstance \/ ModelOperation \/ Exit

SpecProc == InitProc /\ [][NextProc]_vars

\* C17: in the whole life of the process at most one store-connection handle
\* is constructed, the operations of UserModel and of MealModel all run on it,
\* and it is disconnected once the process has shut down
OneStoreHandle ==
  /\ proc.made <= 1
  /\ Cardinality({u.handle : u \in proc.used}) <= 1
  /\ proc.stage = "exited" => proc.open = {}

\* repeated getInstance calls of one class never construct a second client
OneHandlePerClass ==
  /\ proc.made = Cardinality(proc.loaded)
  /\ \A m \in proc.loaded : proc.instance[m] \in 1..proc.made
  /\ \A u \in proc.used : u.handle = proc.instance[prismaOf(u.entity)]

\* at most one handle while only UserModel's module is loaded
OneHandleForUsersAlone ==
  proc.loaded \subseteq {"user-model"} => proc.made <= 1

\* every handle is disconnected once the process has shut down
DisconnectedOnExit == proc.stage = "exited" => proc.open = {}

NutritionFields == {"calories", "carbs", "protein", "fat"}

\* C18: after any sequence of MealModel.create and MealModel.updateById calls
\* every stored meal has calories, carbs, protein and fat that are
\* non-negative integers
MealNutritionNonNegative ==
  \A m \in meals : \A f \in NutritionFields : m[f] \in Nat

\* C19: every stored Meal references a stored MealPlan: MealModel.create with a
\* planId that names no stored plan is rejected and stores nothing, and the
\* delete of a MealPlan that still has meals is rejected and leaves the plan
\* and its meals stored
MealsReferenceStoredPlans ==
  [][/\ \A m \in meals' : m.planId \in plans'
     /\ (ret'.fn = "MealModel.create" /\ <<ret, meals>>' # <<ret, meals>>
           /\ ret'.key \notin plans) =>
          /\ ret'.err # ""
          /\ UNCHANGED <<meals, plans>>
     /\ (ret'.fn = "mealPlan.delete" /\ <<ret, plans>>' # <<ret, plans>>
           /\ \E m \in meals : m.planId = ret'.key) =>
          /\ ret'.err # ""
          /\ UNCHANGED <<meals, plans>>]_vars

\* the delete of a plan that a stored meal refers to has just been refused
MealsReferenceWitness ==
  /\ ret.fn = "mealPlan.delete"
  /\ ret.err = "P2003"
  /\ ret.key \in plans
  /\ \E m \in meals : m.planId = ret.key

UpdatableFields == {"email", "name", "phone", "password"}

\* C21: a PUT /users/:id answered 200 changes, in the row of the target id, only
\* those of email, name, phone and password that its body names; whatever the
\* body holds, that row keeps its id and createdAt and every other row is as
\* it was
UpdateChangesOnlyNamedFields ==
  [][\A r \in Reqs :
       (reqs[r].pc = "write" /\ reqs'[r].pc = "idle" /\ last'.resp.status = 200) =>
         \E o \in users, n \in users' :
           /\ o.id = reqs[r].id
           /\ n.id = o.id
           /\ n.createdAt = o.createdAt
           /\ \A f \in UserFields :
                n[f] # o[f] => f \in UpdatableFields \cap DOMAIN last'.data
           /\ users' \ {n} = users \ {o}]_vars

\* the same, for a body that names nothing but email, name, phone and password
UpdateOfNamedFieldsOnly ==
  [][\A r \in Reqs :
       (reqs[r].pc = "write" /\ reqs'[r].pc = "idle" /\ last'.resp.status = 200
          /\ DOMAIN last'.data \subseteq UpdatableFields) =>
         \E o \in users, n \in users' :
           /\ o.id = reqs[r].id
           /\ n.id = o.id
           /\ n.createdAt = o.createdAt
           /\ \A f \in UserFields : n[f] # o[f] => f \in DOMAIN last'.data
           /\ users' \ {n} = users \ {o}]_vars

\* the stored users with email e whose last password update set a password
\* other than the one they registered with
Repassworded(e) ==
  {u \in WithEmail(users, e) :
     u.id \in DOMAIN cred /\ cred[u.id].set /\ cred[u.id].latest # cred[u.id].first}

\* C22: once a user registered with password p1 has had its password updated
\* (the update returned) to p2 other than p1, and until its next password
\* update or its delete, a login with its email and p1 fails with
\* BadRequestError 'Invalid credentials' and a login with its email and p2
\* returns that user
LoginAfterPasswordUpdate ==
  [][(ret' # ret /\ ret'.fn = "UserModel.login") =>
       \A u \in Repassworded(ret'.key) :
         /\ ret'.password = cred[u.id].first =>
              ret'.err = "BadRequestError" /\ ret'.message = "Invalid credentials"
         /\ ret'.password = cred[u.id].latest =>
              ret'.err = "" /\ ret'.rows = {u}]_vars

\* the same at the handlers, whose routes let through only passwords of 8 to
\* 20 characters: the login is answered 400 'Invalid credentials' with p1 and
\* 200 with that user with p2
LoginFollowsPasswordUpdate ==
  [][(last' # last /\ last'.op = "login") =>
       \A u \in Repassworded(last'.data.email) :
         /\ last'.data.password = cred[u.id].first => last'.resp = InvalidCredentials
         /\ last'.data.password = cred[u.id].latest => last'.resp = Sent(200, {u})]_vars

\* a user registered with one password and updated to another has just logged
\* in with the new one
LoginWithNewPasswordAccepted ==
  /\ last.op = "login"
  /\ last.resp.status = 200
  /\ \E u \in Repassworded(last.data.email) :
       /\ last.data.password = cred[u.id].latest
       /\ last.resp.body = {stripPassword(u)}

\* the same user has just been refused with the password it registered with
LoginWithOldPasswordRefused ==
  /\ last.op = "login"
  /\ last.resp = InvalidCredentials
  /\ \E u \in Repassworded(last.data.email) : last.data.password = cred[u.id].first

\* the same on the data access layer when the password the update set is not
\* the empty string
LoginAfterNonEmptyPasswordUpdate ==
  [][(ret' # ret /\ ret'.fn = "UserModel.login") =>
       \A u \in Repassworded(ret'.key) :
         cred[u.id].latest # <<>> =>
           /\ ret'.password = cred[u.id].first =>
                ret'.err = "BadRequestError" /\ ret'.message = "Invalid credentials"
           /\ ret'.password = cred[u.id].latest =>
                ret'.err = "" /\ ret'.rows = {u}]_vars

====
